---- MODULE Spec2Model ----
(***************************************************************************)
(* Model of the Hexward backend's concurrent core:                         *)
(*   - CameraService   (backend/app/services/camera_service.py)           *)
(*   - YOLOService     (backend/app/services/yolo_service.py)             *)
(*   - WebSocketManager(backend/app/services/websocket_manager.py)        *)
(*   - AIMonitorService(backend/app/services/ai_monitor.py)               *)
(* Every coroutine runs on one asyncio event loop, so the code between two *)
(* awaits that really suspend is one atomic action.  cv2 calls and the     *)
(* YOLO inference are synchronous calls: they never suspend.               *)
(***************************************************************************)
EXTENDS Integers, Sequences, FiniteSets, TLC

(***************************************************************************)
(* Bounds of the model.                                                    *)
(***************************************************************************)
MaxHandles == 3        \* cv2.VideoCapture objects add_camera may open
MaxTasks == 2          \* worker tasks asyncio.create_task may create
MaxDets == 1           \* boxes the engine returns for one frame
MaxFails == 2          \* cap of the consecutive-read-failure counter

MaxSockets == 3        \* websocket connections accepted in total
MaxBroadcasts == 2     \* broadcast calls in total
MaxInbox == 2          \* messages in a socket's inbox when a reply is begun

MaxClock == 2          \* readings of the wall clock (datetime.utcnow())
MaxCount == 2          \* cap of AIMonitorService.detection_count
MaxPending == 1        \* process_detection calls awaiting their analysis
MaxLoops == 4          \* background loop tasks AIMonitorService.start may create
MaxSubscribers == 2    \* connections open while the timers are examined
MaxAlerts == 2         \* rows of the alerts table

CameraIds == {"default_camera", "cam1"}
ClientIds == {"a", "b"}
Statuses == {"active", "offline"}
Sources == {"index", "rtsp", "both", "none"}

\* confidences in percent; settings.DETECTION_CONFIDENCE_THRESHOLD = 0.5
DETECTION_CONFIDENCE_THRESHOLD == 50
Confidences == {49, 50, 51}

(***************************************************************************)
(* State.                                                                  *)
(***************************************************************************)
VARIABLES
    is_running_flag,   \* CameraService.is_running_flag
    is_initialized,    \* YOLOService.is_initialized (and model is not None)
    active_cameras,    \* dict camera id -> capture handle
    camera_configs,    \* dict camera id -> Camera (status, detection_enabled)
    processing_tasks,  \* dict camera id -> task
    caps,              \* the cv2.VideoCapture objects opened so far
    tasks,             \* the asyncio tasks created so far
    lastCall,          \* the operation of the last step and its outcome
    active_connections,\* WebSocketManager.active_connections (dict, in entry order)
    socks,             \* the WebSocket objects and their endpoint coroutines
    bcasts,            \* the broadcast calls made so far
    monitor_running,   \* AIMonitorService.is_running_flag
    detection_count,   \* AIMonitorService.detection_count
    last_analysis_time,\* AIMonitorService.last_analysis_time (0: None)
    active_alerts,     \* AIMonitorService.active_alerts (dict alert id -> Alert)
    loops,             \* the background loop tasks created so far
    loop_tasks,        \* monitoring_task and analysis_task (0: None)
    pending,           \* process_detection calls suspended in the analysis
    websocket_manager, \* AIMonitorService.websocket_manager is not None
    now,               \* the wall clock
    lastMon,           \* the monitor operation of the last step and its outcome
    db_alerts,         \* the alerts table: id -> row (routers/alerts.py)
    lastReq            \* the alerts request of the last step and its status

camVars == <<is_running_flag, is_initialized, active_cameras, camera_configs,
             processing_tasks, caps, tasks, lastCall>>

hubVars == <<active_connections, socks, bcasts>>

monVars == <<monitor_running, detection_count, last_analysis_time, active_alerts,
             loops, loop_tasks, pending, websocket_manager, now, lastMon>>

dbVars == <<db_alerts, lastReq>>

vars == <<camVars, hubVars, monVars, dbVars>>

\* dict helpers
Put(d, k, v) == [x \in (DOMAIN d) \cup {k} |-> IF x = k THEN v ELSE d[x]]
Del(d, k) == [x \in (DOMAIN d) \ {k} |-> d[x]]
EmptyDict == [x \in {} |-> 0]

\* the outcome record of one step: the operation, the id it was called with,
\* its result, and for a worker step the task (0: none), the engine's boxes
\* and the detections handed on; how: for add_camera the source locators of
\* the camera given, for a worker tick what the detection engine did
Call(op, id, ok, task, raw, fwd) ==
    [op |-> op, id |-> id, ok |-> ok, task |-> task, raw |-> raw, fwd |-> fwd,
     how |-> ""]


\* a freshly constructed cv2.VideoCapture
NewCap == [releases |-> 0, stored |-> FALSE]

\* cap.release()
Release(cs, h) == [cs EXCEPT ![h].releases = IF @ < 2 THEN @ + 1 ELSE @]

\* asyncio.create_task(self._process_camera_feed(camera_id))
NewTask(id, h) ==
    [camera_id |-> id, pc |-> "created", cancel |-> FALSE, cap |-> h,
     removed |-> FALSE, fails |-> 0]

Live(t) == t.pc # "done"

\* a task that has finished: the coroutine's frame is gone
Finished(t) ==
    [camera_id |-> "", pc |-> "done", cancel |-> FALSE, cap |-> 0,
     removed |-> FALSE, fails |-> 0]

\* task.cancel(): a request, delivered when the task is next resumed
Cancel(ts, n) == [ts EXCEPT ![n].cancel = Live(ts[n])]

(***************************************************************************)
(* AIMonitorService: the data it handles.                                  *)
(***************************************************************************)
NONE == -1        \* None: a reading that is absent

\* readings around the thresholds; temperatures in tenths of a degree F
HeartRates == {NONE, 0, 49, 50, 120, 121}
Temperatures == {NONE, 0, 959, 960, 1020, 1021}
Saturations == {NONE, 0, 89, 90}

\* patient.vitals is None, a dict (a row of the JSON column), or a VitalSigns
\* object (what the Patient schema holds)
VitalForms == {"dict", "model"}

NoVitals ==
    [form |-> "none", heart_rate |-> NONE, temperature |-> NONE, oxygen_saturation |-> NONE]

Vitals ==
    {NoVitals} \cup [form : VitalForms, heart_rate : HeartRates,
                     temperature : Temperatures, oxygen_saturation : Saturations]

Patients == [vitals : Vitals]

NoPatient == [vitals |-> NoVitals]

\* schemas.AlertType
AlertTypes == {"critical", "warning", "info"}

\* the dict json.loads made of the analysis service's answer: alert_type is
\* a member of AlertType, missing ("absent"), or some other string ("other")
Analyses == [alert_needed : BOOLEAN, alert_type : AlertTypes \cup {"absent", "other"}]

NoAnalysis == [alert_needed |-> FALSE, alert_type |-> "absent"]

\* None as the result of process_detection / check_patient_vitals
NoAlert ==
    [id |-> <<"", 0>>, alert_type |-> "", priority |-> 0,
     acknowledged |-> FALSE, resolved |-> FALSE, triggers |-> <<>>]

\* the outcome record of one monitor step: the operation, its input, what it
\* returned, and the active_alerts figure of the latest status snapshot
MonCall(op, patient, analysis, result, figure) ==
    [op |-> op, patient |-> patient, analysis |-> analysis, result |-> result,
     figure |-> figure]

\* asyncio.create_task(self._monitoring_loop()) / (self._analysis_loop())
NewLoop(kind) == [kind |-> kind, pc |-> "created", cancel |-> FALSE, bc |-> 0]

(***************************************************************************)
(* The alerts table and the requests of routers/alerts.py.                 *)
(***************************************************************************)
AlertIds == {"x", "y"}
UserIds == {"nurse", "doctor"}

\* None in acknowledged_by / resolved_by
NoUser == ""

\* Optional[bool] of AlertUpdate
OptBool == {"unset", "true", "false"}
AlertUpdates == [acknowledged : OptBool, resolved : OptBool]

\* the row create_alert inserts: the column defaults
NewDbAlert ==
    [acknowledged |-> FALSE, acknowledged_by |-> NoUser, acknowledged_at |-> NONE,
     resolved |-> FALSE, resolved_by |-> NoUser, resolved_at |-> NONE]

\* a request and its HTTP status
Request(op, id, status) == [op |-> op, id |-> id, status |-> status]

(***************************************************************************)
(* CameraService.__init__, WebSocketManager.__init__,                      *)
(* AIMonitorService.__init__                                               *)
(***************************************************************************)
Init ==
    /\ monitor_running = FALSE
    /\ detection_count = 0
    /\ last_analysis_time = 0
    /\ active_alerts = EmptyDict
    /\ loops = <<>>
    /\ loop_tasks = [monitoring |-> 0, analysis |-> 0]
    /\ pending = 0
    /\ websocket_manager = FALSE
    /\ now = 1
    /\ lastMon = MonCall("init", NoPatient, NoAnalysis, NoAlert, 0)
    /\ is_running_flag = FALSE
    /\ is_initialized = FALSE
    /\ active_cameras = EmptyDict
    /\ camera_configs = EmptyDict
    /\ processing_tasks = EmptyDict
    /\ caps = <<>>
    /\ tasks = <<>>
    /\ lastCall = Call("init", "", TRUE, 0, <<>>, <<>>)
    /\ active_connections = <<>>
    /\ socks = <<>>
    /\ bcasts = <<>>
    /\ db_alerts = EmptyDict
    /\ lastReq = Request("init", "", 200)

(***************************************************************************)
(* CameraService: registry operations.  None of them suspends.             *)
(***************************************************************************)
Cameras ==
    [id : CameraIds, source : Sources, detection_enabled : BOOLEAN, status : Statuses]

\* the registry part of the state, as add_camera sees it
Registry ==
    [ac |-> active_cameras, cc |-> camera_configs, pt |-> processing_tasks,
     caps |-> caps, tasks |-> tasks, ok |-> TRUE]

\* a store that keeps the handle and the worker and forgets the config
StoreCamera_NoConfig(R, camera, h) ==
    LET n == Len(R.tasks) + 1
        stored == [R EXCEPT !.ac = Put(R.ac, camera.id, h), !.caps[h].stored = TRUE]
    IN  IF camera.detection_enabled
        THEN [stored EXCEPT !.tasks = Append(R.tasks, NewTask(camera.id, h)),
                            !.pt = Put(R.pt, camera.id, n)]
        ELSE stored

\* add_camera, lines 103-110: store the handle and the config, spawn the worker
StoreCamera(R, camera, h) ==
    LET n == Len(R.tasks) + 1
        stored == [R EXCEPT !.ac = Put(R.ac, camera.id, h),
                            !.cc = Put(R.cc, camera.id,
                                       [status |-> camera.status,
                                        detection_enabled |-> camera.detection_enabled]),
                            !.caps[h].stored = TRUE]
    IN  IF camera.detection_enabled
        THEN [stored EXCEPT !.tasks = Append(R.tasks, NewTask(camera.id, h)),
                            !.pt = Put(R.pt, camera.id, n)]
        ELSE stored

\* add_camera with the handle stored before the test read (mutant)
AddCamera_StoreFirst(R, camera, ret) ==
    IF camera.source = "none"
    THEN [R EXCEPT !.ok = FALSE]
    ELSE LET h == Len(R.caps) + 1
             opened == [R EXCEPT !.caps = Append(R.caps, NewCap)]
             kept == StoreCamera(opened, camera, h)
         IN  IF ~ret THEN [kept EXCEPT !.ok = FALSE] ELSE kept

\* add_camera(camera); ret is the outcome of the test read of the new handle
AddCamera(R, camera, ret) ==
    IF camera.source = "none"
    THEN [R EXCEPT !.ok = FALSE]
    ELSE LET h == Len(R.caps) + 1
             opened == [R EXCEPT !.caps = Append(R.caps, NewCap)]
         IN  IF ~ret
             THEN [opened EXCEPT !.caps = Release(opened.caps, h), !.ok = FALSE]
             ELSE StoreCamera(opened, camera, h)

\* the bounds on the objects add_camera creates
CanAdd(camera, ret) ==
    /\ camera.source = "none" => ret
    /\ camera.source # "none" => Len(caps) < MaxHandles
    /\ camera.detection_enabled => Len(tasks) < MaxTasks

SetRegistry(R) ==
    /\ active_cameras' = R.ac
    /\ camera_configs' = R.cc
    /\ processing_tasks' = R.pt
    /\ caps' = R.caps
    /\ tasks' = R.tasks

add_camera(camera, ret) ==
    /\ CanAdd(camera, ret)
    /\ LET R == AddCamera(Registry, camera, ret)
       IN  /\ SetRegistry(R)
           /\ lastCall' = [Call("add_camera", "", R.ok, 0, <<>>, <<>>)
                             EXCEPT !.how = camera.source]
    /\ UNCHANGED <<is_running_flag, is_initialized>>
    /\ UNCHANGED <<hubVars, monVars, dbVars>>

\* routers/cameras.py start_camera: add_camera, then camera.status = "active"
\* on the object add_camera has just stored in camera_configs
start_camera(camera, ret) ==
    /\ CanAdd(camera, ret)
    /\ LET R == AddCamera(Registry, camera, ret)
           S == IF R.ok THEN [R EXCEPT !.cc[camera.id].status = "active"] ELSE R
       IN  /\ SetRegistry(S)
           /\ lastCall' = Call("start_camera", "", R.ok, 0, <<>>, <<>>)
    /\ UNCHANGED <<is_running_flag, is_initialized>>
    /\ UNCHANGED <<hubVars, monVars, dbVars>>

\* the tasks remove_camera(id) leaves behind still looping on that id
MarkRemoved(ts, id) ==
    [n \in DOMAIN ts |->
        IF ts[n].camera_id = id /\ Live(ts[n]) THEN [ts[n] EXCEPT !.removed = TRUE]
        ELSE ts[n]]

\* remove_camera without the membership tests: the KeyError of an unknown id
\* is caught and the call returns False (mutant)
RemoveCamera_NoGuard(R, id) ==
    IF id \in DOMAIN R.pt /\ id \in DOMAIN R.ac /\ id \in DOMAIN R.cc
    THEN [R EXCEPT !.tasks = Cancel(R.tasks, R.pt[id]), !.pt = Del(R.pt, id),
                   !.caps = Release(R.caps, R.ac[id]), !.ac = Del(R.ac, id),
                   !.cc = Del(R.cc, id)]
    ELSE [R EXCEPT !.ok = FALSE]

\* remove_camera(camera_id)
RemoveCamera(R, id) ==
    LET T1 == IF id \in DOMAIN R.pt THEN Cancel(R.tasks, R.pt[id]) ELSE R.tasks
        C1 == IF id \in DOMAIN R.ac THEN Release(R.caps, R.ac[id]) ELSE R.caps
    IN  [R EXCEPT !.tasks = T1, !.pt = Del(R.pt, id),
                  !.caps = C1, !.ac = Del(R.ac, id),
                  !.cc = Del(R.cc, id)]

remove_camera(id) ==
    /\ LET R == RemoveCamera([Registry EXCEPT !.tasks = MarkRemoved(tasks, id)], id)
       IN  /\ SetRegistry(R)
           /\ lastCall' = Call("remove_camera", id, R.ok, 0, <<>>, <<>>)
    /\ UNCHANGED <<is_running_flag, is_initialized>>
    /\ UNCHANGED <<hubVars, monVars, dbVars>>

\* update_camera_status(camera_id, status)
update_camera_status(id, status) ==
    /\ camera_configs' = IF id \in DOMAIN camera_configs
                         THEN [camera_configs EXCEPT ![id].status = status]
                         ELSE camera_configs
    /\ lastCall' = Call("update_camera_status", "", id \in DOMAIN camera_configs,
                        0, <<>>, <<>>)
    /\ UNCHANGED <<is_running_flag, is_initialized, active_cameras,
                   processing_tasks, caps, tasks>>
    /\ UNCHANGED <<hubVars, monVars, dbVars>>

RECURSIVE CancelAll(_, _)
CancelAll(ts, ns) ==
    IF ns = {} THEN ts
    ELSE LET n == CHOOSE x \in ns : TRUE IN CancelAll(Cancel(ts, n), ns \ {n})

RECURSIVE ReleaseAll(_, _)
ReleaseAll(cs, hs) ==
    IF hs = <<>> THEN cs ELSE ReleaseAll(Release(cs, Head(hs)), Tail(hs))

\* dict.values(), as a list (one element per key)
RECURSIVE Values(_)
Values(d) ==
    IF DOMAIN d = {} THEN <<>>
    ELSE LET k == CHOOSE x \in DOMAIN d : TRUE IN <<d[k]>> \o Values(Del(d, k))

Range(d) == {d[k] : k \in DOMAIN d}

\* stop()
stop ==
    /\ is_running_flag' = FALSE
    /\ tasks' = CancelAll(tasks, Range(processing_tasks))
    /\ caps' = ReleaseAll(caps, Values(active_cameras))
    /\ active_cameras' = EmptyDict
    /\ processing_tasks' = EmptyDict
    /\ lastCall' = Call("stop", "", TRUE, 0, <<>>, <<>>)
    /\ UNCHANGED <<is_initialized, camera_configs>>
    /\ UNCHANGED <<hubVars, monVars, dbVars>>

\* add_default_camera: the Camera it builds
DefaultCamera ==
    [id |-> "default_camera", source |-> "index", detection_enabled |-> TRUE,
     status |-> "active"]

\* start(); initOk: YOLOService.initialize succeeds; probe: the read of the
\* probing handle of add_default_camera (opened, read and released inside the
\* call, so it leaves no trace); ret: the test read inside add_camera
start(initOk, probe, ret) ==
    /\ is_running_flag' = TRUE
    /\ is_initialized' = (is_initialized \/ initOk)
    /\ IF probe
       THEN /\ CanAdd(DefaultCamera, ret)
            /\ SetRegistry(AddCamera(Registry, DefaultCamera, ret))
       ELSE /\ ret
            /\ UNCHANGED <<active_cameras, camera_configs, processing_tasks, caps, tasks>>
    /\ lastCall' = Call("start", "", TRUE, 0, <<>>, <<>>)
    /\ UNCHANGED <<hubVars, monVars, dbVars>>

(***************************************************************************)
(* YOLOService.detect_objects and the worker loop _process_camera_feed.    *)
(***************************************************************************)
\* what the engine may return for one frame: the confidences of its boxes
Boxes == UNION {[1..k -> Confidences] : k \in 0..MaxDets}

\* yolo_service.py line 90: "if confidence < threshold: continue"
NotSkipped(c) == ~(c < DETECTION_CONFIDENCE_THRESHOLD)

\* an engine whose failure is not turned into an empty result
detect_objects_FailureLeaks(boxes, available, raises) ==
    IF ~available THEN <<>> ELSE SelectSeq(boxes, NotSkipped)

\* detect_objects(frame): [] when the model is not available or the inference
\* raises; never suspends
detect_objects(boxes, available, raises) ==
    IF ~available THEN <<>>
    ELSE IF raises THEN <<>>
    ELSE SelectSeq(boxes, NotSkipped)

\* what detect_objects went through: its model missing, the inference
\* raising (caught, logged, []), or a result
EngineOutcome(available, raises) ==
    IF ~available THEN "unavailable" ELSE IF raises THEN "failed" ELSE "ok"

\* camera_service.py line 216
IsSignificant(c) == c > DETECTION_CONFIDENCE_THRESHOLD

significant_detections(detections) == SelectSeq(detections, IsSignificant)

\* the engine's boxes handed on unfiltered (mutant)
TickDetections_Unfiltered(boxes, available, raises) == boxes

\* lines 210-221: what one tick hands to _save_detection_frame
TickDetections(boxes, available, raises) ==
    significant_detections(detect_objects(boxes, available, raises))

\* a loop test that does not look at the running flag
LoopCond_HandleOnly(id) == id \in DOMAIN active_cameras

\* "while self.is_running_flag and camera_id in self.active_cameras"
LoopCond(id) == is_running_flag /\ id \in DOMAIN active_cameras

ReadOutcomes == {"frame", "noframe", "raise"}

\* "break" instead of "continue" after a failed read (mutant)
AfterNoFrame_Break == "done"

\* where a read that returned no frame sends the worker: sleep(1), continue
AfterNoFrame == "sleep_read"

\* One resumption of worker task n, up to its next await that suspends
\* (asyncio.sleep) or to its end.  outcome: what cap.read() does; boxes,
\* raises: what the inference does.
process_camera_feed(n, outcome, boxes, raises) ==
    /\ n \in DOMAIN tasks
    /\ Live(tasks[n])
    /\ LET t == tasks[n]
           id == t.camera_id
           quiet == boxes = <<>> /\ ~raises
       IN  IF t.cancel
           THEN \* CancelledError is thrown in at the await (or before the
                \* first step): "break" in the try body, propagation from the
                \* sleep of the except branch
                /\ outcome = "noframe" /\ quiet
                /\ tasks' = [tasks EXCEPT ![n] = Finished(t)]
                /\ lastCall' = Call("worker", "", FALSE, n, <<>>, <<>>)
           ELSE IF ~LoopCond(id)
           THEN /\ outcome = "noframe" /\ quiet
                /\ tasks' = [tasks EXCEPT ![n] = Finished(t)]
                /\ lastCall' = Call("worker", "", FALSE, n, <<>>, <<>>)
           ELSE IF outcome = "noframe"
           THEN /\ quiet
                /\ tasks' = [tasks EXCEPT ![n].pc = AfterNoFrame,
                                          ![n].fails = IF @ < MaxFails THEN @ + 1 ELSE @]
                /\ lastCall' = Call("worker", "", FALSE, n, <<>>, <<>>)
           ELSE IF outcome = "raise"
           THEN /\ quiet
                /\ tasks' = [tasks EXCEPT ![n].pc = "sleep_error", ![n].fails = 0]
                /\ lastCall' = Call("worker", "", FALSE, n, <<>>, <<>>)
           ELSE \* a frame was read from the handle stored for this id
                /\ caps[active_cameras[id]].releases = 0
                /\ ~is_initialized => quiet
                /\ tasks' = [tasks EXCEPT ![n].pc = "sleep_rate", ![n].fails = 0]
                /\ lastCall' = [Call("worker", "", TRUE, n, boxes,
                                     TickDetections(boxes, is_initialized, raises))
                                  EXCEPT !.how = EngineOutcome(is_initialized, raises)]
    /\ UNCHANGED <<is_running_flag, is_initialized, active_cameras, camera_configs,
                   processing_tasks, caps>>
    /\ UNCHANGED <<hubVars, monVars, dbVars>>

(***************************************************************************)
(* The camera service under any sequence of calls and worker steps.        *)
(***************************************************************************)
Next ==
    \/ \E camera \in Cameras, ret \in BOOLEAN : add_camera(camera, ret)
    \/ \E camera \in Cameras, ret \in BOOLEAN : start_camera(camera, ret)
    \/ \E id \in CameraIds : remove_camera(id)
    \/ \E id \in CameraIds, status \in Statuses : update_camera_status(id, status)
    \/ \E probe \in BOOLEAN, ret \in BOOLEAN : start(FALSE, probe, ret)
    \/ stop
    \/ \E n \in 1..MaxTasks, outcome \in ReadOutcomes :
          process_camera_feed(n, outcome, <<>>, FALSE)

\* Spec: a deployment where the YOLO model cannot be loaded (initialize fails)
Spec == Init /\ [][Next]_vars

(***************************************************************************)
(* One camera, with the detection engine loaded: the worker loop with      *)
(* every outcome of the read and of the inference.                         *)
(***************************************************************************)
WorkerCameras ==
    {c \in Cameras : c.id = "cam1" /\ c.source = "index" /\ c.status = "active"}

NextDetect ==
    \/ \E camera \in WorkerCameras, ret \in BOOLEAN : add_camera(camera, ret)
    \/ remove_camera("cam1")
    \/ start(TRUE, FALSE, TRUE)
    \/ stop
    \/ \E n \in 1..MaxTasks, outcome \in ReadOutcomes, boxes \in Boxes, raises \in BOOLEAN :
          process_camera_feed(n, outcome, boxes, raises)

SpecDetect == Init /\ [][NextDetect]_vars

(***************************************************************************)
(* The detection call looked into.  detect_objects is a coroutine function *)
(* without an await in its body: "await self.yolo_service.detect_objects(  *)
(* frame)" runs the inference inside the worker's own step on the event    *)
(* loop's thread.  The tick is split here in the entry into the call and    *)
(* its return; while a call is in progress the thread is taken, so the loop *)
(* resumes no task and serves no request.                                   *)
(***************************************************************************)
\* worker n has read a frame and entered detect_objects
detect_begin(n) ==
    /\ n \in DOMAIN tasks
    /\ Live(tasks[n])
    /\ tasks[n].pc # "detecting"
    /\ ~tasks[n].cancel
    /\ LoopCond(tasks[n].camera_id)
    /\ caps[active_cameras[tasks[n].camera_id]].releases = 0
    /\ tasks' = [tasks EXCEPT ![n].pc = "detecting", ![n].fails = 0]
    /\ lastCall' = Call("read", "", TRUE, n, <<>>, <<>>)
    /\ UNCHANGED <<is_running_flag, is_initialized, active_cameras, camera_configs,
                   processing_tasks, caps>>
    /\ UNCHANGED <<hubVars, monVars, dbVars>>

\* detect_objects returns to worker n, which filters and goes to its sleep
detect_end(n, boxes, raises) ==
    /\ n \in DOMAIN tasks
    /\ tasks[n].pc = "detecting"
    /\ ~is_initialized => (boxes = <<>> /\ ~raises)
    /\ tasks' = [tasks EXCEPT ![n].pc = "sleep_rate"]
    /\ lastCall' = [Call("worker", "", TRUE, n, boxes,
                         TickDetections(boxes, is_initialized, raises))
                      EXCEPT !.how = EngineOutcome(is_initialized, raises)]
    /\ UNCHANGED <<is_running_flag, is_initialized, active_cameras, camera_configs,
                   processing_tasks, caps>>
    /\ UNCHANGED <<hubVars, monVars, dbVars>>

\* the event loop's thread is not inside a detection call
EventLoopFree == \A n \in DOMAIN tasks : tasks[n].pc # "detecting"

(***************************************************************************)
(* Properties of the camera service.                                       *)
(***************************************************************************)
\* the workers of camera id that are alive and have not been cancelled
RunningWorkers(id) ==
    {n \in DOMAIN tasks : Live(tasks[n]) /\ tasks[n].camera_id = id /\ ~tasks[n].cancel}

Unregistered(id) ==
    /\ id \notin DOMAIN active_cameras
    /\ id \notin DOMAIN camera_configs
    /\ id \notin DOMAIN processing_tasks

\* C1: a registered camera has status active if and only if a worker task is
\* running for its id.
C1_ActiveIffWorker ==
    \A id \in DOMAIN camera_configs :
        (camera_configs[id].status = "active") <=> (RunningWorkers(id) # {})

\* C2: at most one live worker task exists per camera id.
C2_AtMostOneWorker ==
    \A id \in CameraIds : Cardinality(RunningWorkers(id)) <= 1

C4_RemoveIdempotent ==
    [][lastCall'.op = "remove_camera" =>
          /\ lastCall'.ok
          /\ lastCall'.id \notin DOMAIN active_cameras'
          /\ lastCall'.id \notin DOMAIN camera_configs'
          /\ lastCall'.id \notin DOMAIN processing_tasks'
          /\ Unregistered(lastCall'.id) =>
                UNCHANGED <<active_cameras, camera_configs, processing_tasks, caps>>]_vars

\* remove_camera has returned for an id that was not registered (no stored
\* handle has ever been released, so no registered camera was removed or
\* stopped) while another camera is registered
C4_Witness ==
    /\ lastCall.op = "remove_camera" /\ lastCall.ok
    /\ Unregistered(lastCall.id)
    /\ \A h \in DOMAIN caps : caps[h].stored /\ caps[h].releases = 0
    /\ \E id \in DOMAIN active_cameras : id # lastCall.id

\* C5: a worker that was processing an id when remove_camera(id) returned
\* runs no further detection step.
C5_NoDetectionAfterRemove ==
    [][(lastCall'.op = "worker" /\ lastCall'.ok) => ~tasks[lastCall'.task].removed]_vars

\* C6: no stored handle is released twice, and once no camera is registered
\* any more (all removed, or the service stopped) every stored handle has
\* been released exactly once.
C6_ReleasedExactlyOnce ==
    /\ \A h \in DOMAIN caps : caps[h].releases <= 1
    /\ active_cameras = EmptyDict =>
          \A h \in DOMAIN caps : caps[h].stored => caps[h].releases = 1

\* C7: when a worker task finishes, the handle stored with it by add_camera
\* has been released.
C7_ReleasedBeforeTaskEnds ==
    [][\A n \in DOMAIN tasks :
          (Live(tasks[n]) /\ ~Live(tasks'[n])) => caps'[tasks[n].cap].releases >= 1]_vars

\* C8: a worker with consecutive read failures is in its retry back-off, not
\* finished; a worker only finishes when it was cancelled or its loop
\* condition (service running, id registered) is false; and a successful read
\* after failures runs the detection step and ends the degraded state.
C8_ReadFailuresNeverStop ==
    /\ [](\A n \in DOMAIN tasks : tasks[n].fails > 0 => tasks[n].pc = "sleep_read")
    /\ [][\A n \in DOMAIN tasks :
             /\ (Live(tasks[n]) /\ ~Live(tasks'[n])) =>
                   (tasks[n].cancel \/ ~LoopCond(tasks[n].camera_id))
             /\ (tasks[n].fails > 0 /\ ~tasks[n].cancel /\ LoopCond(tasks[n].camera_id)
                   /\ tasks'[n] # tasks[n]) =>
                   \/ tasks'[n].pc = "sleep_read" /\ tasks'[n].fails >= tasks[n].fails
                   \/ tasks'[n].pc = "sleep_error"
                   \/ /\ tasks'[n].pc = "sleep_rate" /\ tasks'[n].fails = 0
                      /\ lastCall'.op = "worker" /\ lastCall'.task = n /\ lastCall'.ok]_vars

\* a worker in back-off after at least two consecutive failed reads
C8_Witness ==
    \E n \in DOMAIN tasks :
        tasks[n].fails >= 2 /\ tasks[n].pc = "sleep_read" /\ ~tasks[n].cancel

\* C9: no detection with confidence below the threshold is forwarded by a
\* worker tick.
C9_BelowThresholdNeverForwarded ==
    \A i \in DOMAIN lastCall.fwd : lastCall.fwd[i] >= DETECTION_CONFIDENCE_THRESHOLD

\* a tick whose engine returned a box below the threshold
C9_Witness ==
    /\ lastCall.op = "worker" /\ lastCall.ok
    /\ \E i \in DOMAIN lastCall.raw : lastCall.raw[i] < DETECTION_CONFIDENCE_THRESHOLD

(***************************************************************************)
(* WebSocketManager.  active_connections is a Python dict: its entries     *)
(* keep insertion order, a deletion leaves a dead entry behind, a new key  *)
(* is appended, and an iterator raises RuntimeError when the dict's size   *)
(* differs from the size at the iterator's creation.  (At most five        *)
(* insertions happen within the bounds, so the table is never rebuilt.)    *)
(***************************************************************************)
WELCOME == 0      \* the connection_established message; broadcasts are 1, 2, ...
REPLY == -1       \* "pong" or the status snapshot sent by the endpoint

LiveEntries(es) == {i \in DOMAIN es : es[i].live}

\* len(d)
DictLen(es) == Cardinality(LiveEntries(es))

\* key in d
HasKey(es, cid) == \E i \in LiveEntries(es) : es[i].cid = cid

KeyIndex(es, cid) == CHOOSE i \in LiveEntries(es) : es[i].cid = cid

\* d[key] = value
SetItem(es, cid, w) ==
    IF HasKey(es, cid) THEN [es EXCEPT ![KeyIndex(es, cid)].ws = w]
    ELSE Append(es, [cid |-> cid, ws |-> w, live |-> TRUE])

\* a disconnect that empties the registry when the id is not in it
disconnect_ClearOnMiss(es, cid) ==
    IF HasKey(es, cid) THEN [es EXCEPT ![KeyIndex(es, cid)].live = FALSE]
    ELSE [i \in DOMAIN es |-> [es[i] EXCEPT !.live = FALSE]]

\* disconnect(client_id): "if client_id in d: del d[client_id]"
disconnect(es, cid) ==
    IF HasKey(es, cid) THEN [es EXCEPT ![KeyIndex(es, cid)].live = FALSE] ELSE es

\* "for client_id in disconnected_clients: self.disconnect(client_id)"
RECURSIVE DisconnectAll(_, _)
DisconnectAll(es, cids) ==
    IF cids = <<>> THEN es ELSE DisconnectAll(disconnect(es, Head(cids)), Tail(cids))

InFlight(b) == b.pc = "sending"

\* a broadcast call that is over: it returned ("done") or raised ("raised")
Over(b, how) ==
    [pc |-> how, pos |-> 0, used |-> 0, left |-> 0, cid |-> "", ws |-> 0,
     failed |-> <<>>, disturbed |-> FALSE, targets |-> {}, hb |-> b.hb]

\* a connect or disconnect of an endpoint that changes the dict while
\* broadcasts are suspended in a send
Disturb(bs, changed) ==
    [k \in DOMAIN bs |->
        IF changed /\ InFlight(bs[k]) THEN [bs[k] EXCEPT !.disturbed = TRUE] ELSE bs[k]]

\* websocket.send_text(message) on socket w succeeds while its client is there
SendOk(w) == socks[w].client = "open"

Received(ss, w, msg) == [ss EXCEPT ![w].inbox = Append(@, msg)]

\* One step of "for client_id, websocket in self.active_connections.items()":
\* the iterator's next(), then either the next send is begun, or the loop is
\* over and the failed clients are disconnected, or RuntimeError escapes.
Advance(es, b) ==
    LET rest == {i \in LiveEntries(es) : i > b.pos}
        i == CHOOSE x \in rest : \A y \in rest : x <= y
    IN  IF DictLen(es) # b.used
        THEN [b |-> Over(b, "raised"), es |-> es]
        ELSE IF rest = {}
        THEN [b |-> Over(b, "done"), es |-> DisconnectAll(es, b.failed)]
        ELSE IF b.left = 0
        THEN [b |-> Over(b, "raised"), es |-> es]
        ELSE [b |-> [b EXCEPT !.pos = i, !.left = @ - 1,
                              !.cid = es[i].cid, !.ws = es[i].ws],
              es |-> es]

\* the endpoint's connect(websocket, client_id), up to the await of the
\* welcome message's send_text
connect(cid) ==
    /\ Len(socks) < MaxSockets
    /\ LET w == Len(socks) + 1
       IN  /\ socks' = Append(socks, [cid |-> cid, client |-> "open",
                                      ep |-> "welcome", inbox |-> <<>>,
                                      to |-> w, hit |-> FALSE])
           /\ active_connections' = SetItem(active_connections, cid, w)
           /\ bcasts' = Disturb(bcasts, TRUE)
    /\ UNCHANGED <<camVars, monVars, dbVars>>

\* the send of the welcome message ends: send_personal_message returns, or
\* catches the send's exception and disconnects the client id
welcome_sent(w) ==
    /\ w \in DOMAIN socks
    /\ socks[w].ep = "welcome"
    /\ IF SendOk(w)
       THEN /\ socks' = [Received(socks, w, WELCOME) EXCEPT ![w].ep = "receiving"]
            /\ UNCHANGED <<active_connections, bcasts>>
       ELSE /\ socks' = [socks EXCEPT ![w].ep = "receiving"]
            /\ active_connections' = disconnect(active_connections, socks[w].cid)
            /\ bcasts' = Disturb(bcasts, HasKey(active_connections, socks[w].cid))
    /\ UNCHANGED <<camVars, monVars, dbVars>>

\* the client of socket w goes away: from now on send_text on w raises
client_close(w) ==
    /\ w \in DOMAIN socks
    /\ socks[w].client = "open"
    /\ socks' = [socks EXCEPT ![w].client = "gone"]
    /\ UNCHANGED <<active_connections, bcasts>>
    /\ UNCHANGED <<camVars, monVars, dbVars>>

\* main.py: receive_text raises WebSocketDisconnect, the endpoint disconnects
\* and returns (what the vanished client had received is dropped with it)
endpoint_closed(w) ==
    /\ w \in DOMAIN socks
    /\ socks[w].ep = "receiving"
    /\ socks[w].client = "gone"
    /\ socks' = [socks EXCEPT ![w].ep = "closed", ![w].inbox = <<>>,
                              ![w].hit = HasKey(active_connections, socks[w].cid)]
    /\ active_connections' = disconnect(active_connections, socks[w].cid)
    /\ bcasts' = Disturb(bcasts, HasKey(active_connections, socks[w].cid))
    /\ UNCHANGED <<camVars, monVars, dbVars>>

\* broadcast(data) up to its first await: the call's record, over at once
\* when nobody is connected; hb: the message is a system_heartbeat
BeginBroadcast(es, hb) ==
    LET new == [pc |-> "sending", pos |-> 0, used |-> DictLen(es),
                left |-> DictLen(es), cid |-> "", ws |-> 0,
                failed |-> <<>>, disturbed |-> FALSE,
                targets |-> {es[i].ws : i \in LiveEntries(es)}, hb |-> hb]
    IN  IF DictLen(es) = 0 THEN Over(new, "done") ELSE Advance(es, new).b

\* broadcast(data), up to its first await
broadcast ==
    /\ Len(bcasts) < MaxBroadcasts
    /\ bcasts' = Append(bcasts, BeginBroadcast(active_connections, FALSE))
    /\ UNCHANGED <<active_connections, socks>>
    /\ UNCHANGED <<camVars, monVars, dbVars>>

\* the send_text awaited by broadcast k ends (delivered, or raised and caught)
\* and the loop goes on; the send of a cancelled task does not end, the
\* cancellation is thrown into it instead
broadcast_step(k) ==
    /\ k \in DOMAIN bcasts
    /\ InFlight(bcasts[k])
    /\ \A n \in DOMAIN loops : loops[n].bc = k => ~loops[n].cancel
    /\ LET b == bcasts[k]
           sent == IF SendOk(b.ws) THEN b ELSE [b EXCEPT !.failed = Append(@, b.cid)]
           nxt == Advance(active_connections, sent)
       IN  /\ socks' = IF SendOk(b.ws) THEN Received(socks, b.ws, k) ELSE socks
           /\ bcasts' = [bcasts EXCEPT ![k] = nxt.b]
           /\ active_connections' = nxt.es
    /\ UNCHANGED <<camVars, monVars, dbVars>>

\* a lookup without the membership test: the socket last stored under the id
PersonalTarget_NoTest(es, cid) ==
    LET was == {i \in DOMAIN es : es[i].cid = cid}
    IN  IF was = {} THEN 0 ELSE es[CHOOSE i \in was : \A j \in was : j <= i].ws

\* send_personal_message: "if client_id in self.active_connections" and the
\* lookup of the websocket; 0 when the id is not registered (nothing is sent)
PersonalTarget(es, cid) ==
    IF HasKey(es, cid) THEN es[KeyIndex(es, cid)].ws ELSE 0

\* main.py: the endpoint of socket w receives a command ("ping" or
\* "get_live_data") and calls send_personal_message(reply, client_id), which
\* returns at once when the id is not registered and otherwise sends to the
\* socket registered under the id now
ping(w) ==
    /\ w \in DOMAIN socks
    /\ socks[w].ep = "receiving"
    /\ socks[w].client = "open"
    /\ LET t == PersonalTarget(active_connections, socks[w].cid)
       IN  IF t # 0
           THEN /\ Len(socks[t].inbox) < MaxInbox
                /\ socks' = [socks EXCEPT ![w].ep = "reply", ![w].to = t]
           ELSE socks' = socks
    /\ UNCHANGED <<active_connections, bcasts>>
    /\ UNCHANGED <<camVars, monVars, dbVars>>

\* the send of the reply ends: send_personal_message returns, or catches the
\* send's exception and disconnects the client id
reply_sent(w) ==
    /\ w \in DOMAIN socks
    /\ socks[w].ep = "reply"
    /\ LET t == socks[w].to
       IN  IF SendOk(t)
           THEN /\ socks' = [Received(socks, t, REPLY) EXCEPT ![w].ep = "receiving", ![w].to = w]
                /\ UNCHANGED <<active_connections, bcasts>>
           ELSE /\ socks' = [socks EXCEPT ![w].ep = "receiving", ![w].to = w]
                /\ active_connections' = disconnect(active_connections, socks[w].cid)
                /\ bcasts' = Disturb(bcasts, HasKey(active_connections, socks[w].cid))
    /\ UNCHANGED <<camVars, monVars, dbVars>>

NextHub ==
    \/ \E cid \in ClientIds : connect(cid)
    \/ \E w \in 1..MaxSockets : welcome_sent(w)
    \/ \E w \in 1..MaxSockets : client_close(w)
    \/ \E w \in 1..MaxSockets : endpoint_closed(w)
    \/ broadcast
    \/ \E k \in 1..MaxBroadcasts : broadcast_step(k)

SpecHub == Init /\ [][NextHub]_vars

\* the hub as main.py alone drives it: endpoints that connect, answer
\* commands and close (nothing calls broadcast)
NextEndpoints ==
    \/ \E cid \in ClientIds : connect(cid)
    \/ \E w \in 1..MaxSockets : welcome_sent(w)
    \/ \E w \in 1..MaxSockets : client_close(w)
    \/ \E w \in 1..MaxSockets : endpoint_closed(w)
    \/ \E w \in 1..MaxSockets : ping(w)
    \/ \E w \in 1..MaxSockets : reply_sent(w)

SpecEndpoints == Init /\ [][NextEndpoints]_vars

(***************************************************************************)
(* Properties of the broadcast hub.                                        *)
(***************************************************************************)
\* the sockets registered in the dict
Registered(es) == {es[i].ws : i \in LiveEntries(es)}

\* the client ids whose send failed in broadcast call k, the send that is
\* ending in this step included
FailedIn(k) ==
    IF SendOk(bcasts[k].ws) THEN bcasts[k].failed
    ELSE Append(bcasts[k].failed, bcasts[k].cid)

\* C10: a broadcast to several subscribers in which a send fails (and during which no endpoint
\* connected or disconnected) returns without raising, has delivered the
\* message to every other subscriber that was registered when it was called
\* and still is, and has removed the failing subscriber.
C10_BroadcastIsolatesFailure ==
    [][\A k \in DOMAIN bcasts :
          (/\ InFlight(bcasts[k]) /\ ~InFlight(bcasts'[k])
           /\ Cardinality(bcasts[k].targets) >= 2
           /\ FailedIn(k) # <<>>
           /\ ~bcasts[k].disturbed) =>
             /\ bcasts'[k].pc = "done"
             /\ \A w \in bcasts[k].targets :
                   (w \in Registered(active_connections') /\ socks'[w].client = "open") =>
                       \E i \in DOMAIN socks'[w].inbox : socks'[w].inbox[i] = k
             /\ \A i \in DOMAIN FailedIn(k) :
                   ~HasKey(active_connections', FailedIn(k)[i])]_vars

\* C11: a broadcast during which an endpoint connected or disconnected
\* returns without raising and has delivered the message to every subscriber
\* that was registered from its call to its end.
C11_MutationDuringBroadcast ==
    [][\A k \in DOMAIN bcasts :
          (/\ InFlight(bcasts[k]) /\ ~InFlight(bcasts'[k])
           /\ bcasts[k].disturbed) =>
             /\ bcasts'[k].pc = "done"
             /\ \A w \in bcasts[k].targets :
                   (w \in Registered(active_connections') /\ socks'[w].client = "open") =>
                       \E i \in DOMAIN socks'[w].inbox : socks'[w].inbox[i] = k]_vars

\* the sends in flight on socket w: broadcasts suspended in send_text(w) and
\* personal messages (welcome, reply) suspended in send_text(w)
SendsInFlight(w) ==
    Cardinality({k \in DOMAIN bcasts : InFlight(bcasts[k]) /\ bcasts[k].ws = w})
      + Cardinality({v \in DOMAIN socks :
                        socks[v].ep \in {"welcome", "reply"} /\ socks[v].to = w})

\* C12: at no time are two sends in flight on the same socket.
C12_NoConcurrentSends ==
    \A w \in DOMAIN socks : SendsInFlight(w) <= 1

\* C13: every socket receives the broadcast messages in the order of the
\* broadcast calls (the k-th call's message is k).
C13_BroadcastOrder ==
    \A w \in DOMAIN socks :
        \A i, j \in DOMAIN socks[w].inbox :
            (i < j /\ socks[w].inbox[i] >= 1 /\ socks[w].inbox[j] >= 1) =>
                socks[w].inbox[i] < socks[w].inbox[j]

\* the registration of client id c is the same in es and fs
SameEntry(es, fs, c) ==
    /\ HasKey(es, c) = HasKey(fs, c)
    /\ HasKey(es, c) => es[KeyIndex(es, c)].ws = fs[KeyIndex(fs, c)].ws

C15_ConnectWelcomesOne ==
    [][\A w \in DOMAIN socks :
          (socks[w].ep = "welcome" /\ socks'[w].ep = "receiving" /\ SendOk(w)) =>
             /\ Cardinality({i \in DOMAIN socks'[w].inbox : socks'[w].inbox[i] = WELCOME}) = 1
             /\ \A v \in DOMAIN socks \ {w} : socks'[v].inbox = socks[v].inbox
             /\ HasKey(active_connections', socks[w].cid)]_vars

\* C16: disconnect of an id that is not registered changes nothing, a second
\* disconnect of the same id changes nothing more, the id is not registered
\* afterwards and every other id is registered as before; an endpoint that
\* disconnects an unregistered id leaves the registry as it is.
C16_DisconnectIdempotent ==
    /\ [](\A cid \in ClientIds :
            LET once == disconnect(active_connections, cid)
            IN  /\ disconnect(once, cid) = once
                /\ ~HasKey(active_connections, cid) => once = active_connections
                /\ ~HasKey(once, cid)
                /\ \A c \in ClientIds \ {cid} : SameEntry(active_connections, once, c))
    /\ [][\A w \in DOMAIN socks :
             (/\ socks[w].ep = "receiving" /\ socks'[w].ep = "closed"
              /\ ~HasKey(active_connections, socks[w].cid)) =>
                active_connections' = active_connections]_vars

\* an endpoint has disconnected an id that was not registered, while
\* another subscriber is registered
C16_Witness ==
    \E w \in DOMAIN socks :
        /\ socks[w].ep = "closed" /\ ~socks[w].hit
        /\ DictLen(active_connections) >= 1

(***************************************************************************)
(* AIMonitorService.  main.py never calls set_websocket_manager, so        *)
(* self.websocket_manager is None and no operation of the monitor          *)
(* broadcasts; the only await that suspends outside the loops' sleeps is   *)
(* the call of the analysis service in process_detection.                  *)
(***************************************************************************)
\* datetime.utcnow() moves on
tick ==
    /\ now < MaxClock
    /\ now' = now + 1
    /\ UNCHANGED <<monitor_running, detection_count, last_analysis_time, active_alerts,
                   loops, loop_tasks, pending, lastMon>>
    /\ UNCHANGED <<camVars, hubVars, websocket_manager, dbVars>>

\* a store that keeps the new alert only
StoreAlert_KeepLatest(alerts, alert) == [x \in {alert.id} |-> alert]

\* self.active_alerts[alert.id] = alert
StoreAlert(alerts, alert) == Put(alerts, alert.id, alert)

\* "vitals.get(key)" as a condition: the reading is there and is not 0
Truthy(v) == v # NONE /\ v # 0

\* "isinstance(vitals, dict)"
IsDict(vitals) == vitals.form = "dict"

\* check_patient_vitals, lines 174-192: the list alerts_needed
AlertsNeeded(vitals) ==
    (IF IsDict(vitals) /\ Truthy(vitals.heart_rate)
        /\ (vitals.heart_rate < 50 \/ vitals.heart_rate > 120)
     THEN <<"heart_rate">> ELSE <<>>)
    \o (IF IsDict(vitals) /\ Truthy(vitals.temperature)
           /\ (vitals.temperature < 960 \/ vitals.temperature > 1020)
        THEN <<"temperature">> ELSE <<>>)
    \o (IF IsDict(vitals) /\ Truthy(vitals.oxygen_saturation)
           /\ vitals.oxygen_saturation < 90
        THEN <<"oxygen_saturation">> ELSE <<>>)

\* check_patient_vitals, lines 170-224: the alert it builds at time t, or None
VitalsAlert(patient, t) ==
    IF patient.vitals.form = "none" THEN NoAlert
    ELSE LET needed == AlertsNeeded(patient.vitals)
         IN  IF needed # <<>>
             THEN [id |-> <<"vitals_alert", t>>,
                   alert_type |-> IF Len(needed) > 1 THEN "critical" ELSE "warning",
                   priority |-> IF Len(needed) > 1 THEN 1 ELSE 2,
                   acknowledged |-> FALSE, resolved |-> FALSE,
                   triggers |-> needed]
             ELSE NoAlert

check_patient_vitals(patient) ==
    /\ LET alert == VitalsAlert(patient, now)
       IN  /\ active_alerts' = IF alert # NoAlert THEN StoreAlert(active_alerts, alert)
                                ELSE active_alerts
           /\ lastMon' = MonCall("check_patient_vitals", patient, NoAnalysis, alert,
                                 lastMon.figure)
    /\ UNCHANGED <<monitor_running, detection_count, last_analysis_time,
                   loops, loop_tasks, pending, now>>
    /\ UNCHANGED <<camVars, hubVars, websocket_manager, dbVars>>

\* process_detection up to its await of analyze_detection_events
process_detection_begin ==
    /\ detection_count < MaxCount
    /\ pending < MaxPending
    /\ detection_count' = detection_count + 1
    /\ pending' = pending + 1
    /\ lastMon' = MonCall("process_detection_begin", NoPatient, NoAnalysis, NoAlert,
                          lastMon.figure)
    /\ UNCHANGED <<monitor_running, last_analysis_time, active_alerts, loops,
                   loop_tasks, now>>
    /\ UNCHANGED <<camVars, hubVars, websocket_manager, dbVars>>

\* process_detection, lines 99-137: the alert built from the analysis at time
\* t; AlertType(...) raises ValueError for a string that is no member, the
\* except branch then returns None
DetectionAlert(analysis, t) ==
    LET kind == IF analysis.alert_type = "absent" THEN "warning" ELSE analysis.alert_type
    IN  IF analysis.alert_needed /\ kind \in AlertTypes
        THEN [id |-> <<"alert", t>>,
              alert_type |-> kind,
              priority |-> IF analysis.alert_type = "critical" THEN 1 ELSE 2,
              acknowledged |-> FALSE, resolved |-> FALSE,
              triggers |-> <<>>]
        ELSE NoAlert

\* process_detection, lines 122-128: the new_alert broadcast after the store.
\* broadcast returns at once when nobody is connected; otherwise it begins
\* with json.dumps of a dict that holds alert.dict(), whose created_at is a
\* datetime: TypeError, before anything is sent
AlertBroadcastRaises == websocket_manager /\ DictLen(active_connections) > 0

\* what process_detection returns for the alert it built: the except branch
\* (lines 135-137) turns an exception after the store into None
Returned(alert) == IF alert # NoAlert /\ AlertBroadcastRaises THEN NoAlert ELSE alert

\* the analysis arrives and process_detection runs to its return
process_detection_end(analysis) ==
    /\ pending > 0
    /\ pending' = pending - 1
    /\ LET alert == DetectionAlert(analysis, now)
       IN  /\ active_alerts' = IF alert # NoAlert THEN StoreAlert(active_alerts, alert)
                                ELSE active_alerts
           /\ lastMon' = MonCall("process_detection", NoPatient, analysis, Returned(alert),
                                 lastMon.figure)
    /\ UNCHANGED <<monitor_running, detection_count, last_analysis_time, loops,
                   loop_tasks, now>>
    /\ UNCHANGED <<camVars, hubVars, websocket_manager, dbVars>>

\* get_current_status()["active_alerts"]
StatusFigure == Cardinality(DOMAIN active_alerts)

\* the dict get_current_status returns, without its two timestamps and the
\* gpt_available entry; camera_service is never injected (set_camera_service
\* has no caller)
StatusSnapshot ==
    [is_running |-> monitor_running,
     detection_count |-> detection_count,
     active_alerts |-> StatusFigure,
     camera_service |-> FALSE,
     websocket_manager |-> websocket_manager]

\* the endpoint's "get_live_data" / the status route: get_current_status()
get_current_status ==
    /\ lastMon' = MonCall("status", NoPatient, NoAnalysis, NoAlert, StatusFigure)
    /\ UNCHANGED <<monitor_running, detection_count, last_analysis_time, active_alerts,
                   loops, loop_tasks, pending, now>>
    /\ UNCHANGED <<camVars, hubVars, websocket_manager, dbVars>>

\* AIMonitorService.start
monitor_start ==
    /\ Len(loops) + 2 <= MaxLoops
    /\ monitor_running' = TRUE
    /\ loops' = loops \o <<NewLoop("monitoring"), NewLoop("analysis")>>
    /\ loop_tasks' = [monitoring |-> Len(loops) + 1, analysis |-> Len(loops) + 2]
    /\ lastMon' = MonCall("start", NoPatient, NoAnalysis, NoAlert, lastMon.figure)
    /\ UNCHANGED <<detection_count, last_analysis_time, active_alerts, pending, now>>
    /\ UNCHANGED <<camVars, hubVars, websocket_manager, dbVars>>

\* task.cancel() on a loop task: a request, delivered when it is next resumed
CancelLoop(ls, n) ==
    IF n = 0 THEN ls ELSE [ls EXCEPT ![n].cancel = (ls[n].pc # "done")]

\* AIMonitorService.stop
monitor_stop ==
    /\ monitor_running' = FALSE
    /\ loops' = CancelLoop(CancelLoop(loops, loop_tasks.monitoring), loop_tasks.analysis)
    /\ lastMon' = MonCall("stop", NoPatient, NoAnalysis, NoAlert, lastMon.figure)
    /\ UNCHANGED <<detection_count, last_analysis_time, active_alerts, loop_tasks,
                   pending, now>>
    /\ UNCHANGED <<camVars, hubVars, websocket_manager, dbVars>>

\* a loop task that has finished
LoopDone(l) == [kind |-> l.kind, pc |-> "done", cancel |-> FALSE, bc |-> 0]

\* AIMonitorService.set_websocket_manager (main.py never calls it)
set_websocket_manager ==
    /\ ~websocket_manager
    /\ websocket_manager' = TRUE
    /\ lastMon' = MonCall("set_websocket_manager", NoPatient, NoAnalysis, NoAlert,
                          lastMon.figure)
    /\ UNCHANGED <<monitor_running, detection_count, last_analysis_time, active_alerts,
                   loops, loop_tasks, pending, now>>
    /\ UNCHANGED <<camVars, hubVars, dbVars>>

\* a loop that ignores the stop: it goes on whenever it is resumed
LoopRuns_Always(l) == TRUE

\* a resumed loop task goes into another iteration: it was not cancelled
\* (CancelledError: break) and "while self.is_running_flag" holds
LoopRuns(l) == ~l.cancel /\ monitor_running

\* an exception in an iteration that ends the loop
AfterLoopError_Fatal == "done"

\* "except Exception": the error is printed, the loop sleeps and goes on
AfterLoopError == "sleeping_error"

\* one resumption of _monitoring_loop / _analysis_loop from its start or from
\* a sleep: a cancelled task ends (CancelledError at its start or in its
\* sleep), a task that finds is_running_flag false ends, otherwise one
\* iteration runs up to its next await that suspends.  fails: the iteration
\* raises an Exception.  The heartbeat iteration suspends in broadcast when a
\* manager is injected and somebody is connected.
loop_step(n, fails) ==
    /\ n \in DOMAIN loops
    /\ loops[n].pc \notin {"done", "broadcasting"}
    /\ IF ~LoopRuns(loops[n])
       THEN /\ ~fails
            /\ loops' = [loops EXCEPT ![n] = LoopDone(loops[n])]
            /\ UNCHANGED <<last_analysis_time, lastMon, bcasts>>
       ELSE IF fails
       THEN /\ loops' = [loops EXCEPT ![n].pc = AfterLoopError]
            /\ lastMon' = MonCall("loop_error", NoPatient, NoAnalysis, NoAlert,
                                  lastMon.figure)
            /\ UNCHANGED <<last_analysis_time, bcasts>>
       ELSE IF loops[n].kind = "analysis"
       THEN /\ loops' = [loops EXCEPT ![n].pc = "sleeping"]
            /\ last_analysis_time' = now
            /\ lastMon' = MonCall("analysis", NoPatient, NoAnalysis, NoAlert,
                                  lastMon.figure)
            /\ UNCHANGED bcasts
       ELSE /\ lastMon' = MonCall("heartbeat", NoPatient, NoAnalysis, NoAlert, StatusFigure)
            /\ UNCHANGED last_analysis_time
            /\ IF websocket_manager
               THEN /\ Len(bcasts) < MaxBroadcasts
                    /\ LET b == BeginBroadcast(active_connections, TRUE)
                       IN  /\ bcasts' = Append(bcasts, b)
                           /\ loops' = IF InFlight(b)
                                       THEN [loops EXCEPT ![n].pc = "broadcasting",
                                                          ![n].bc = Len(bcasts) + 1]
                                       ELSE [loops EXCEPT ![n].pc = "sleeping"]
               ELSE /\ loops' = [loops EXCEPT ![n].pc = "sleeping"]
                    /\ UNCHANGED bcasts
    /\ UNCHANGED <<monitor_running, detection_count, active_alerts, loop_tasks,
                   pending, now>>
    /\ UNCHANGED <<camVars, active_connections, socks, websocket_manager, dbVars>>

\* the heartbeat loop suspended in broadcast is resumed: cancelled, the
\* CancelledError thrown into send_text ends the broadcast and the loop;
\* otherwise, the broadcast being over, the loop goes to its sleep (to the
\* sleep of "except Exception" when the broadcast raised)
heartbeat_sent(n) ==
    /\ n \in DOMAIN loops
    /\ loops[n].pc = "broadcasting"
    /\ LET k == loops[n].bc
       IN  IF loops[n].cancel
           THEN /\ InFlight(bcasts[k])
                /\ bcasts' = [bcasts EXCEPT ![k] = Over(bcasts[k], "raised")]
                /\ loops' = [loops EXCEPT ![n] = LoopDone(loops[n])]
           ELSE /\ ~InFlight(bcasts[k])
                /\ loops' = [loops EXCEPT
                                ![n].pc = IF bcasts[k].pc = "raised" THEN AfterLoopError
                                          ELSE "sleeping",
                                ![n].bc = 0]
                /\ UNCHANGED bcasts
    /\ UNCHANGED <<monitor_running, detection_count, last_analysis_time, active_alerts,
                   loop_tasks, pending, now, lastMon>>
    /\ UNCHANGED <<camVars, active_connections, socks, websocket_manager, dbVars>>

\* the patients of the ward the monitor is run with: no vitals, normal
\* vitals, heart rate out of range, heart rate and temperature out of range
WardPatients ==
    {pt \in Patients :
        \/ pt.vitals.form = "none"
        \/ /\ pt.vitals.form = "dict"
           /\ pt.vitals.heart_rate \in {50, 121}
           /\ pt.vitals.temperature \in {960, 1021}
           /\ pt.vitals.heart_rate = 121 \/ pt.vitals.temperature = 960
           /\ pt.vitals.oxygen_saturation = 90}

NextMonitor ==
    \/ tick
    \/ loops = <<>> /\ monitor_start
    \/ monitor_stop
    \/ \E n \in 1..MaxLoops, fails \in BOOLEAN : loop_step(n, fails)
    \/ get_current_status
    \/ process_detection_begin
    \/ \E analysis \in Analyses : process_detection_end(analysis)
    \/ \E patient \in WardPatients : check_patient_vitals(patient)

SpecMonitor == Init /\ [][NextMonitor]_vars

\* the monitor's two timers with a manager injected or not, and the
\* connections the heartbeat is broadcast to
NextTimers ==
    \/ set_websocket_manager
    \/ loops = <<>> /\ monitor_start
    \/ monitor_stop
    \/ \E n \in 1..MaxLoops, fails \in BOOLEAN : loop_step(n, fails)
    \/ \E n \in 1..MaxLoops : heartbeat_sent(n)
    \/ \E k \in 1..MaxBroadcasts : broadcast_step(k)
    \/ Len(socks) < MaxSubscribers /\ \E cid \in ClientIds : connect(cid)
    \/ \E w \in 1..MaxSockets : welcome_sent(w)
    \/ \E w \in 1..MaxSockets : client_close(w)
    \/ \E w \in 1..MaxSockets : endpoint_closed(w)

SpecTimers == Init /\ [][NextTimers]_vars

(***************************************************************************)
(* The application as main.py composes it: the services constructed at     *)
(* import, the lifespan's startup and shutdown, and in between the loop     *)
(* tasks, the default camera's worker and the websocket endpoints.  Nothing *)
(* in the startup calls or in the shutdown calls suspends, so no task runs  *)
(* between the two calls of either.                                         *)
(***************************************************************************)
\* between startup and shutdown, and after shutdown
Up == monitor_running /\ is_running_flag
Down == ~monitor_running /\ ~is_running_flag /\ loops # <<>>

NextApp ==
    \/ ~monitor_running /\ ~is_running_flag /\ loops = <<>> /\ monitor_start
    \/ /\ monitor_running /\ ~is_running_flag
       /\ \E initOk, probe, ret \in BOOLEAN : start(initOk, probe, ret)
    \/ Up /\ monitor_stop
    \/ ~monitor_running /\ is_running_flag /\ stop
    \/ /\ Up \/ Down
       /\ \E n \in 1..MaxLoops, fails \in BOOLEAN : loop_step(n, fails)
    \/ /\ Up \/ Down
       /\ \E n \in 1..MaxTasks, outcome \in ReadOutcomes, boxes \in Boxes, raises \in BOOLEAN :
             process_camera_feed(n, outcome, boxes, raises)
    \/ Up /\ Len(socks) < MaxSubscribers /\ \E cid \in ClientIds : connect(cid)
    \/ Up /\ \E w \in 1..MaxSockets : welcome_sent(w)
    \/ Up /\ \E w \in 1..MaxSockets : client_close(w)
    \/ Up /\ \E w \in 1..MaxSockets : endpoint_closed(w)

SpecApp == Init /\ [][NextApp]_vars

\* The event loop resumes every task that is ready: a loop task whose sleep
\* is over gets its next iteration, an accepted connection gets its welcome.
FairApp ==
    /\ SpecApp
    /\ \A n \in 1..MaxLoops : WF_vars(\E fails \in BOOLEAN : loop_step(n, fails))
    /\ \A w \in 1..MaxSockets : WF_vars(Up /\ welcome_sent(w))

(***************************************************************************)
(* Two cameras' workers and the monitor's timers on the one event loop,    *)
(* with the detection call as a state of its own.                          *)
(***************************************************************************)
\* the event loop resumes worker m: into a detection, or through a read
\* without a frame, an error, its cancellation or its end
resume_worker(m) ==
    /\ EventLoopFree
    /\ \/ detect_begin(m)
       \/ \E outcome \in {"noframe", "raise"} : process_camera_feed(m, outcome, <<>>, FALSE)

\* the event loop resumes loop task n of the monitor
resume_loop(n) ==
    /\ EventLoopFree
    /\ \E fails \in BOOLEAN : loop_step(n, fails)

DetectingCameras ==
    {c \in Cameras : c.source = "index" /\ c.status = "active" /\ c.detection_enabled}

NextBlocking ==
    \/ EventLoopFree /\ \E camera \in DetectingCameras, ret \in BOOLEAN : add_camera(camera, ret)
    \/ EventLoopFree /\ \E initOk \in BOOLEAN : start(initOk, FALSE, TRUE)
    \/ EventLoopFree /\ stop
    \/ EventLoopFree /\ loops = <<>> /\ monitor_start
    \/ \E m \in 1..MaxTasks : resume_worker(m)
    \/ \E n \in 1..MaxLoops : resume_loop(n)
    \/ \E n \in 1..MaxTasks, boxes \in Boxes, raises \in BOOLEAN : detect_end(n, boxes, raises)

SpecBlocking == Init /\ [][NextBlocking]_vars

(***************************************************************************)
(* Both services under any sequence of start and stop calls, with their     *)
(* loop tasks and workers: start may be called on a started service and     *)
(* stop on a stopped one.                                                   *)
(***************************************************************************)
\* CameraService.is_running() with the flag never read (mutant)
is_running_Stale == TRUE

\* CameraService.is_running()
is_running == is_running_flag

\* AIMonitorService.is_running()
monitor_is_running == monitor_running

NextLifecycle ==
    \/ \E probe, ret \in BOOLEAN : start(TRUE, probe, ret)
    \/ stop
    \/ monitor_start
    \/ monitor_stop
    \/ \E n \in 1..MaxLoops : loop_step(n, FALSE)
    \/ \E n \in 1..MaxTasks, outcome \in ReadOutcomes :
          process_camera_feed(n, outcome, <<>>, FALSE)

SpecLifecycle == Init /\ [][NextLifecycle]_vars

\* process_detection with a manager injected or not, and the connections a
\* new alert is broadcast to
NextAlerts ==
    \/ tick
    \/ set_websocket_manager
    \/ process_detection_begin
    \/ \E analysis \in Analyses : process_detection_end(analysis)
    \/ Len(socks) < MaxSubscribers /\ \E cid \in ClientIds : connect(cid)
    \/ \E w \in 1..MaxSockets : welcome_sent(w)
    \/ \E w \in 1..MaxSockets : client_close(w)
    \/ \E w \in 1..MaxSockets : endpoint_closed(w)

SpecAlerts == Init /\ [][NextAlerts]_vars

(***************************************************************************)
(* routers/alerts.py: create, update, acknowledge and resolve.  The         *)
(* handlers do not suspend; each runs from its query to its commit.         *)
(***************************************************************************)
\* POST /alerts
create_alert(id) ==
    /\ Cardinality(DOMAIN db_alerts) < MaxAlerts
    /\ id \notin DOMAIN db_alerts
    /\ db_alerts' = Put(db_alerts, id, NewDbAlert)
    /\ lastReq' = Request("create_alert", id, 200)
    /\ UNCHANGED <<camVars, hubVars, monVars>>

\* an acknowledgement that sets the flag and leaves who and when empty
Acknowledge_FlagOnly(a, user, t) == [a EXCEPT !.acknowledged = TRUE]

\* acknowledged = True, acknowledged_by = current_user.id, acknowledged_at = utcnow()
Acknowledge(a, user, t) ==
    [a EXCEPT !.acknowledged = TRUE, !.acknowledged_by = user, !.acknowledged_at = t]

Unacknowledge(a) ==
    [a EXCEPT !.acknowledged = FALSE, !.acknowledged_by = NoUser, !.acknowledged_at = NONE]

\* resolved = True, resolved_by = current_user.id, resolved_at = utcnow()
Resolve(a, user, t) ==
    [a EXCEPT !.resolved = TRUE, !.resolved_by = user, !.resolved_at = t]

Unresolve(a) ==
    [a EXCEPT !.resolved = FALSE, !.resolved_by = NoUser, !.resolved_at = NONE]

\* update_alert, lines 90-108: the two independent blocks
UpdateAlert(a, alert_update, user, t) ==
    LET a1 == IF alert_update.acknowledged # "unset"
                 /\ (alert_update.acknowledged = "true") # a.acknowledged
              THEN IF alert_update.acknowledged = "true" THEN Acknowledge(a, user, t)
                   ELSE Unacknowledge(a)
              ELSE a
    IN  IF alert_update.resolved # "unset" /\ (alert_update.resolved = "true") # a1.resolved
        THEN IF alert_update.resolved = "true" THEN Resolve(a1, user, t) ELSE Unresolve(a1)
        ELSE a1

\* PUT /alerts/{alert_id}
update_alert(id, alert_update, user) ==
    /\ IF id \notin DOMAIN db_alerts
       THEN /\ lastReq' = Request("update_alert", id, 404)
            /\ UNCHANGED db_alerts
       ELSE /\ db_alerts' = [db_alerts EXCEPT ![id] = UpdateAlert(@, alert_update, user, now)]
            /\ lastReq' = Request("update_alert", id, 200)
    /\ UNCHANGED <<camVars, hubVars, monVars>>

\* POST /alerts/{alert_id}/acknowledge
acknowledge_alert(id, user) ==
    /\ IF id \notin DOMAIN db_alerts
       THEN /\ lastReq' = Request("acknowledge_alert", id, 404)
            /\ UNCHANGED db_alerts
       ELSE IF db_alerts[id].acknowledged
       THEN /\ lastReq' = Request("acknowledge_alert", id, 400)
            /\ UNCHANGED db_alerts
       ELSE /\ db_alerts' = [db_alerts EXCEPT ![id] = Acknowledge(@, user, now)]
            /\ lastReq' = Request("acknowledge_alert", id, 200)
    /\ UNCHANGED <<camVars, hubVars, monVars>>

\* POST /alerts/{alert_id}/resolve
resolve_alert(id, user) ==
    /\ IF id \notin DOMAIN db_alerts
       THEN /\ lastReq' = Request("resolve_alert", id, 404)
            /\ UNCHANGED db_alerts
       ELSE IF db_alerts[id].resolved
       THEN /\ lastReq' = Request("resolve_alert", id, 400)
            /\ UNCHANGED db_alerts
       ELSE /\ db_alerts' =
                 [db_alerts EXCEPT
                    ![id] = Resolve(IF @.acknowledged THEN @ ELSE Acknowledge(@, user, now),
                                    user, now)]
            /\ lastReq' = Request("resolve_alert", id, 200)
    /\ UNCHANGED <<camVars, hubVars, monVars>>

NextRequests ==
    \/ tick
    \/ \E id \in AlertIds : create_alert(id)
    \/ \E id \in AlertIds, alert_update \in AlertUpdates, user \in UserIds :
          update_alert(id, alert_update, user)
    \/ \E id \in AlertIds, user \in UserIds : acknowledge_alert(id, user)
    \/ \E id \in AlertIds, user \in UserIds : resolve_alert(id, user)

SpecRequests == Init /\ [][NextRequests]_vars

\* check_patient_vitals on every vitals snapshot
NextVitals ==
    \E patient \in Patients : check_patient_vitals(patient)

SpecVitals == Init /\ [][NextVitals]_vars

(***************************************************************************)
(* Properties of the monitor.                                              *)
(***************************************************************************)
\* C17: check_patient_vitals returns no alert when no reading of the
\* snapshot is out of range, a warning alert of priority 2 when exactly one
\* is, and a critical alert of priority 1 when two or more are.
C17_BreachCountDecides ==
    lastMon.op = "check_patient_vitals" =>
        LET v == lastMon.patient.vitals
            r == lastMon.result
            n == (IF v.heart_rate # NONE /\ (v.heart_rate < 50 \/ v.heart_rate > 120)
                  THEN 1 ELSE 0)
                 + (IF v.temperature # NONE /\ (v.temperature < 960 \/ v.temperature > 1020)
                    THEN 1 ELSE 0)
                 + (IF v.oxygen_saturation # NONE /\ v.oxygen_saturation < 90
                    THEN 1 ELSE 0)
        IN  /\ n = 0 => r = NoAlert
            /\ n = 1 => r.alert_type = "warning" /\ r.priority = 2
            /\ n >= 2 => r.alert_type = "critical" /\ r.priority = 1

\* C18: for a vitals snapshot held as a dict, a reading is among the alert's
\* triggers exactly when it is present and out of its range (heart rate
\* below 50 or above 120, temperature below 96.0 or above 102.0, oxygen
\* saturation below 90), whatever its value.
C18_BreachIffOutOfRange ==
    (lastMon.op = "check_patient_vitals" /\ lastMon.patient.vitals.form = "dict") =>
        LET v == lastMon.patient.vitals
            counted(name) == \E i \in DOMAIN lastMon.result.triggers :
                                 lastMon.result.triggers[i] = name
        IN  /\ counted("heart_rate") <=>
                   (v.heart_rate # NONE /\ (v.heart_rate < 50 \/ v.heart_rate > 120))
            /\ counted("temperature") <=>
                   (v.temperature # NONE /\ (v.temperature < 960 \/ v.temperature > 1020))
            /\ counted("oxygen_saturation") <=>
                   (v.oxygen_saturation # NONE /\ v.oxygen_saturation < 90)

\* C19: process_detection returns an alert exactly when the analysis says an
\* alert is needed; the alert has the kind the analysis names, priority 1
\* for critical and 2 otherwise, and is neither acknowledged nor resolved.
C19_AlertIffWarranted ==
    lastMon.op = "process_detection" =>
        LET a == lastMon.analysis
            r == lastMon.result
        IN  /\ (r # NoAlert) <=> a.alert_needed
            /\ a.alert_needed =>
                  /\ a.alert_type # "absent" => r.alert_type = a.alert_type
                  /\ r.priority = IF a.alert_type = "critical" THEN 1 ELSE 2
                  /\ ~r.acknowledged /\ ~r.resolved

\* C20: no step of the monitor removes an alert id from active_alerts or
\* makes it hold fewer alerts, and the active_alerts figure of a status
\* snapshot is never below that of an earlier snapshot.
C20_AlertsOnlyGrow ==
    [][/\ DOMAIN active_alerts \subseteq DOMAIN active_alerts'
       /\ Cardinality(DOMAIN active_alerts') >= Cardinality(DOMAIN active_alerts)
       /\ lastMon'.figure >= lastMon.figure]_vars

\* the monitor was started and stopped, its loops have ended, two alerts
\* are held and a status snapshot shows them
C20_Witness ==
    /\ ~monitor_running
    /\ loops # <<>> /\ \A n \in DOMAIN loops : loops[n].pc = "done"
    /\ Cardinality(DOMAIN active_alerts) >= 2
    /\ lastMon.op = "status" /\ lastMon.figure >= 2

\* ---------------------------------------------------------------------------
\* The timers

\* a step in which a timer loop runs an iteration: a heartbeat snapshot, a
\* heartbeat broadcast, an update of last_analysis_time, or a failed iteration
LoopIteration ==
    \/ lastMon' # lastMon /\ lastMon'.op \in {"heartbeat", "analysis", "loop_error"}
    \/ last_analysis_time' # last_analysis_time
    \/ Len(bcasts') > Len(bcasts) /\ bcasts'[Len(bcasts')].hb

\* the loop tasks that can still be resumed, and those not asked to end
LiveLoops == {n \in DOMAIN loops : loops[n].pc # "done"}
Uncancelled == {n \in LiveLoops : ~loops[n].cancel}

\* C22: once stop() has returned no timer iteration runs: a loop runs an
\* iteration only while the monitor is running and some loop task is not
\* cancelled; stop() cancels both loop tasks at whatever await they are
\* suspended, and a cancelled loop only ends
C22_NoIterationAfterStop ==
    /\ [][LoopIteration => (monitor_running /\ Uncancelled # {})]_vars
    /\ [][(monitor_running /\ ~monitor_running') =>
              \A n \in LiveLoops : loops'[n].cancel]_vars
    /\ [][\A n \in LiveLoops \ Uncancelled : loops'[n] \in {loops[n], LoopDone(loops[n])}]_vars

\* C22 witness: stopped with the heartbeat loop suspended in a broadcast and
\* the analysis loop in its sleep, both cancelled
C22_Witness ==
    /\ ~monitor_running
    /\ \E n, m \in LiveLoops :
          /\ loops[n].pc = "broadcasting" /\ loops[n].cancel
          /\ loops[m].kind = "analysis" /\ loops[m].pc = "sleeping" /\ loops[m].cancel
          /\ last_analysis_time > 0

\* the analysis loop n fails in this step (an Exception in its iteration)
AnalysisFails(n) ==
    /\ loops[n].kind = "analysis"
    /\ lastMon'.op = "loop_error" /\ lastMon' # lastMon
    /\ loops'[n] # loops[n]

\* C24: a failure inside an analysis-loop iteration is not fatal and leaves
\* the heartbeat timer alone: the failing loop is still live and in a sleep,
\* every other loop task and every broadcast is as before, the monitor is
\* still running, and the analysis loop in its error sleep can go into its
\* next iteration
C24_AnalysisFailureNotFatal ==
    /\ [][\A n \in DOMAIN loops :
            AnalysisFails(n) =>
              /\ loops'[n].pc \notin {"done", "created"}
              /\ ~loops'[n].cancel
              /\ \A m \in DOMAIN loops \ {n} : loops'[m] = loops[m]
              /\ bcasts' = bcasts
              /\ monitor_running' = monitor_running]_vars
    /\ [](\A n \in Uncancelled :
            (monitor_running /\ loops[n].kind = "analysis" /\ loops[n].pc = "sleeping_error")
              => ENABLED <<loop_step(n, FALSE)>>_vars)

\* C24 witness: the analysis loop sleeps after a failed iteration while the
\* heartbeat loop is suspended in a heartbeat broadcast
C24_Witness ==
    /\ monitor_running
    /\ lastMon.op = "loop_error"
    /\ \E n, m \in Uncancelled :
          /\ loops[n].kind = "analysis" /\ loops[n].pc = "sleeping_error"
          /\ loops[m].kind = "monitoring" /\ loops[m].pc = "broadcasting"
          /\ bcasts[loops[m].bc].hb

\* ---------------------------------------------------------------------------
\* The lifespan

\* C21: startup brings up the detection capability and the camera registry
\* before any timer iteration runs; shutdown stops the timers before the
\* camera workers, and once the camera service is stopped no worker is left
\* uncancelled and the detection capability has been released
C21_StartupShutdownOrder ==
    /\ [][LoopIteration => is_running_flag]_vars
    /\ [][(is_running_flag /\ ~is_running_flag') => ~monitor_running]_vars
    /\ [](Down => \A n \in DOMAIN tasks : ~Live(tasks[n]) \/ tasks[n].cancel)
    /\ [](Down => ~is_initialized)

\* socket w is a connected subscriber: open and registered
Subscribed(w) ==
    /\ w \in DOMAIN socks
    /\ socks[w].client = "open"
    /\ w \in Registered(active_connections)

\* socket w has received a system_heartbeat message
GotHeartbeat(w) ==
    \E i \in DOMAIN socks[w].inbox :
        socks[w].inbox[i] \in DOMAIN bcasts /\ bcasts[socks[w].inbox[i]].hb

\* C23: in the application as composed at startup, a subscriber that stays
\* connected while the monitor runs eventually receives a system_heartbeat
C23_HeartbeatReaches ==
    \A w \in 1..MaxSubscribers :
        [](Up /\ Subscribed(w) => <>(~Up \/ ~Subscribed(w) \/ GotHeartbeat(w)))

\* ---------------------------------------------------------------------------
\* Registration and the worker's stages

\* C27: add_camera accepts a camera only with exactly one source locator:
\* with neither and with both it returns an error (and, by C3, registers
\* nothing)
C27_ExactlyOneLocator ==
    (lastCall.op = "add_camera" /\ lastCall.how \in {"none", "both"}) => ~lastCall.ok

\* C28: a registered camera with detection disabled has a running capture
\* loop: a live worker task for its id
C28_DisabledStillCaptures ==
    \A id \in DOMAIN active_cameras \cap DOMAIN camera_configs :
        ~camera_configs[id].detection_enabled => RunningWorkers(id) # {}

\* C26: a detection-engine failure on a frame does not end the worker: the
\* tick forwards nothing, and the worker is live, in its frame-rate sleep,
\* and can be resumed for its next tick
C26_EngineFailureNotFatal ==
    (lastCall.op = "worker" /\ lastCall.how = "failed") =>
        /\ lastCall.ok
        /\ lastCall.fwd = <<>>
        /\ Live(tasks[lastCall.task])
        /\ tasks[lastCall.task].pc = "sleep_rate"
        /\ ENABLED (\E outcome \in ReadOutcomes :
                        process_camera_feed(lastCall.task, outcome, <<>>, FALSE))

\* C26 witness: the engine failed on a frame for which it would have
\* reported a box above the threshold; the worker sleeps until its next tick
C26_Witness ==
    /\ lastCall.op = "worker" /\ lastCall.how = "failed"
    /\ lastCall.raw # <<>> /\ lastCall.raw[1] > DETECTION_CONFIDENCE_THRESHOLD
    /\ tasks[lastCall.task].pc = "sleep_rate" /\ ~tasks[lastCall.task].cancel

\* the detections with a confidence at or above the threshold
AtOrAbove(c) == c >= DETECTION_CONFIDENCE_THRESHOLD

\* C29: the worker forwards exactly the detections whose confidence is at
\* or above the threshold: equal is forwarded, below is dropped
C29_ThresholdInclusive ==
    (lastCall.op = "worker" /\ lastCall.how = "ok") =>
        lastCall.fwd = SelectSeq(lastCall.raw, AtOrAbove)

\* ---------------------------------------------------------------------------
\* The endpoint's commands

\* C30: the reply to a command ("pong" to ping, the status snapshot to
\* get_live_data) is sent to the connection the command came from and to no
\* other; any other content is a step that changes nothing
C30_ReplyToSender ==
    [][\A w \in DOMAIN socks :
          (socks[w].ep = "receiving" /\ socks'[w].ep = "reply") => socks'[w].to = w]_vars

\* ---------------------------------------------------------------------------
\* Scheduling during a detection

\* C25: while the detection call of one worker is in progress, every other
\* worker that is due can be resumed for its next tick, and so can the
\* monitor's timers
C25_DetectionDoesNotBlock ==
    \A n \in DOMAIN tasks :
        tasks[n].pc = "detecting" =>
            /\ \A m \in DOMAIN tasks \ {n} :
                  (/\ Live(tasks[m]) /\ ~tasks[m].cancel
                   /\ tasks[m].camera_id # tasks[n].camera_id) => ENABLED resume_worker(m)
            /\ \A l \in Uncancelled : ENABLED resume_loop(l)

\* ---------------------------------------------------------------------------
\* The services' life cycle

\* C31: for the monitor and for the camera service, is_running() is false
\* before the first start(), true once start() has returned, false once
\* stop() has returned, and changes in no other step, for any sequence of
\* start and stop calls
C31_RunningFollowsStartStop ==
    /\ ~is_running /\ ~monitor_is_running
    /\ [](lastCall.op = "start" => is_running)
    /\ [](lastCall.op = "stop" => ~is_running)
    /\ [](lastMon.op = "start" => monitor_is_running)
    /\ [](lastMon.op = "stop" => ~monitor_is_running)
    /\ [][(is_running' # is_running) =>
              lastCall'.op = (IF is_running' THEN "start" ELSE "stop")]_vars
    /\ [][(monitor_is_running' # monitor_is_running) =>
              lastMon'.op = (IF monitor_is_running' THEN "start" ELSE "stop")]_vars

\* C31 witness: the monitor started a second time after a stop, the camera
\* service stopped after a start that registered the default camera
C31_Witness ==
    /\ lastMon.op = "start" /\ monitor_is_running /\ Len(loops) = 4
    /\ \E n \in DOMAIN loops : loops[n].cancel
    /\ lastCall.op = "stop" /\ ~is_running
    /\ "default_camera" \in DOMAIN camera_configs

\* C37: at most one heartbeat loop task and at most one analysis loop task
\* are alive at any time, start() twice without a stop() included
C37_OneLoopOfEachKind ==
    \A kind \in {"monitoring", "analysis"} :
        Cardinality({n \in LiveLoops : loops[n].kind = kind}) <= 1

\* ---------------------------------------------------------------------------
\* The status snapshot

\* C32: a status snapshot (taken by the heartbeat loop or on request) reports
\* the count of active cameras, the detections seen and the alert count,
\* each equal to the current value when the snapshot is taken
C32_SnapshotCounts ==
    [][(lastMon'.op \in {"status", "heartbeat"} /\ lastMon' # lastMon) =>
          /\ "active_cameras" \in DOMAIN StatusSnapshot
          /\ StatusSnapshot["active_cameras"] = Cardinality(DOMAIN active_cameras)
          /\ StatusSnapshot.detection_count = detection_count
          /\ StatusSnapshot.active_alerts = Cardinality(DOMAIN active_alerts)
          /\ lastMon'.figure = StatusSnapshot.active_alerts]_vars

\* ---------------------------------------------------------------------------
\* The registry's three dictionaries

\* C33: every camera id with a processing task has a capture handle, and
\* every id with a capture handle has a stored configuration
C33_RegistryKeysNested ==
    /\ DOMAIN processing_tasks \subseteq DOMAIN active_cameras
    /\ DOMAIN active_cameras \subseteq DOMAIN camera_configs

\* C33 witness: after a stop, which keeps the configurations, a camera has
\* been added again with a worker: the three key sets are not all equal
C33_Witness ==
    /\ DOMAIN processing_tasks # {}
    /\ DOMAIN active_cameras # DOMAIN camera_configs
    /\ lastCall.op = "add_camera" /\ lastCall.ok

\* ---------------------------------------------------------------------------
\* The worker's loop test

\* worker task n is resumed in this step
WorkerStep(n) ==
    /\ lastCall'.op = "worker" /\ lastCall'.task = n
    /\ <<tasks[n], lastCall>>' # <<tasks[n], lastCall>>

\* C34: a worker reads a frame only where the running flag is set and its
\* camera id has a capture handle; a worker resumed where the flag is cleared
\* or the id is gone ends in that step without a frame, so a worker spawned
\* on a service that is not running ends without processing any frame
C34_ReadsOnlyWhileRunning ==
    [][\A n \in DOMAIN tasks :
          WorkerStep(n) =>
            /\ (Live(tasks'[n]) \/ lastCall'.ok) =>
                  (is_running_flag /\ tasks[n].camera_id \in DOMAIN active_cameras)
            /\ ~(is_running_flag /\ tasks[n].camera_id \in DOMAIN active_cameras) =>
                  (tasks'[n] = Finished(tasks[n]) /\ ~lastCall'.ok /\ lastCall'.raw = <<>>)]_vars

\* C34 witness: a camera added to a service that is not running; its worker
\* was resumed and has ended, the camera still registered
C34_Witness ==
    /\ ~is_running_flag
    /\ lastCall.op = "worker" /\ ~lastCall.ok
    /\ ~Live(tasks[lastCall.task])
    /\ \E id \in DOMAIN processing_tasks :
          id \in DOMAIN active_cameras /\ processing_tasks[id] = lastCall.task

\* ---------------------------------------------------------------------------
\* Closing a connection

\* C35: when the endpoint of a connection closes, only that connection's own
\* registration is removed: every other connection registered before the
\* close, one accepted under the same client id included, is registered after
C35_CloseRemovesOwnOnly ==
    [][\A w \in DOMAIN socks :
          (socks[w].ep = "receiving" /\ socks'[w].ep = "closed") =>
             \A v \in Registered(active_connections) \ {w} :
                 v \in Registered(active_connections')]_vars

\* ---------------------------------------------------------------------------
\* The alert returned and the alert stored

\* C36: process_detection returns an alert if and only if that call added
\* the alert to active_alerts: what it returns is stored under its id, and
\* when it stores an alert it returns that alert, a failing broadcast of the
\* new alert included
C36_ReturnedIffStored ==
    [][(lastMon'.op = "process_detection" /\ pending' < pending) =>
          /\ lastMon'.result # NoAlert =>
                /\ lastMon'.result.id \in DOMAIN active_alerts'
                /\ active_alerts'[lastMon'.result.id] = lastMon'.result
          /\ active_alerts' # active_alerts => lastMon'.result # NoAlert]_vars

\* ---------------------------------------------------------------------------
\* The alerts table

\* who and when are both recorded / both empty
AckSet(a) == a.acknowledged_by # NoUser /\ a.acknowledged_at # NONE
AckEmpty(a) == a.acknowledged_by = NoUser /\ a.acknowledged_at = NONE
ResSet(a) == a.resolved_by # NoUser /\ a.resolved_at # NONE
ResEmpty(a) == a.resolved_by = NoUser /\ a.resolved_at = NONE

\* C38: for every alert, acknowledged is true exactly when acknowledged_by
\* and acknowledged_at are set, resolved is true exactly when resolved_by and
\* resolved_at are set; a request rejected as already acknowledged or already
\* resolved leaves the table unchanged
C38_FlagsMatchWhoAndWhen ==
    /\ [](\A id \in DOMAIN db_alerts :
            LET a == db_alerts[id]
            IN  /\ IF a.acknowledged THEN AckSet(a) ELSE AckEmpty(a)
                /\ IF a.resolved THEN ResSet(a) ELSE ResEmpty(a))
    /\ [][lastReq'.status = 400 => db_alerts' = db_alerts]_vars

\* C38 witness: an acknowledge request rejected on an alert that an update
\* had acknowledged, with another alert resolved and unacknowledged again
C38_Witness ==
    /\ lastReq.op = "acknowledge_alert" /\ lastReq.status = 400
    /\ db_alerts[lastReq.id].acknowledged
    /\ \E id \in DOMAIN db_alerts :
          /\ id # lastReq.id
          /\ db_alerts[id].resolved /\ ~db_alerts[id].acknowledged
          /\ db_alerts[id].resolved_by # db_alerts[lastReq.id].acknowledged_by

\* C39: every resolved alert is acknowledged
C39_ResolvedImpliesAcknowledged ==
    \A id \in DOMAIN db_alerts : db_alerts[id].resolved => db_alerts[id].acknowledged

====
